---- MODULE Spec2Model ----
(***************************************************************************)
(* MyJournie: the tiered conversational-memory store                       *)
(* (src/src/backend/memory.py, class MemoryStore).                         *)
(*                                                                         *)
(* Two tables, memory_active and memory_archive, keyed by id.  add_memory  *)
(* inserts into memory_active and commits, then                            *)
(* _enforce_max_active_for_user counts the user's active rows and moves    *)
(* the oldest ones to memory_archive, one committed batch at a time.       *)
(* Every commit is a state of the model, so a caller is a small process:   *)
(*   idle -> count -> select -> commit -> select -> ... -> idle            *)
(***************************************************************************)
EXTENDS Integers, Sequences, FiniteSets, TLC

(* ---------------------------- bounds ----------------------------------- *)
MaxAdds == 4          \* add_memory calls (= ids issued by uuid4) per behaviour
MaxCap == 2           \* max_active_per_user ranges over 1..MaxCap
MaxBatch == 2         \* archive_batch_size ranges over 1..MaxBatch
NCallers == 2         \* simultaneous callers of add_memory
MaxImports == 2       \* import_memory calls per behaviour
MaxConcAdds == 3      \* ids issued per behaviour with simultaneous callers
MaxIOAdds == 1        \* ids issued per behaviour when imports are modelled
NTaggers == 2         \* at most NTaggers configured taggers
MaxTagAdds == 2       \* ids issued per behaviour when taggers are varied
MaxBatchAdds == 2     \* ids issued per behaviour when batch sizes are compared
MaxHits == 2          \* keywords of one list found in a message
MaxScore == 3         \* sentiment scores range over -MaxScore..MaxScore

(* ---------------------------- input sets ------------------------------- *)
None == <<>>                      \* Python None / a missing dict key
Some(x) == <<x>>                  \* a present value
Users == {"u1", "u2"}
Roles == {"user", ""}             \* add_memory does not validate role
Contents == {"sad"}
CallerTags == {None, Some(<<"a">>)}           \* Optional[List[str]]
TaggerOutcomes == {"raise", <<>>, <<"a">>}    \* a tagger raises or returns tags
Backends == {"sqlite", "postgresql"}          \* dialect of DATABASE_URL
Callers == 1..NCallers

Min(a, b) == IF a < b THEN a ELSE b

(* ---------------------------- state ------------------------------------ *)
VARIABLES
  max_active_per_user,   \* MemoryStore.max_active_per_user
  archive_batch_size,    \* MemoryStore.archive_batch_size
  taggers,               \* MemoryStore.taggers
  backend,               \* dialect behind ENGINE
  active,                \* rows of table memory_active
  archive,               \* rows of table memory_archive
  clock,                 \* the wall clock read by _now_utc()
  nextId,                \* ids issued so far by uuid.uuid4() (+1)
  pc,                    \* per caller: position inside add_memory
  a_user,                \* per caller: user_id argument of the running add
  a_entry,               \* per caller: id of the entry the running add created
  detached,              \* per caller: its own session deleted that entry
  n_to_move,             \* per caller: local n_to_move of the enforcer
  oldest,                \* per caller: local oldest (the selected batch)
  result,                \* per caller: outcome of its last finished call
  nImports,              \* import_memory calls made so far
  r_pc,                  \* position inside calculate_risk_score
  r_risk,                \* local risk of calculate_risk_score
  t_pc,                  \* position inside JournieAgent.generate_response
  t_user,                \* user_id of the chat turn
  t_ctx,                 \* ids of the records in context_list
  t_msg                  \* id of the record stored for user_message

vars == <<max_active_per_user, archive_batch_size, taggers, backend, active,
          archive, clock, nextId, pc, a_user, a_entry, detached, n_to_move,
          oldest, result, nImports, r_pc, r_risk, t_pc, t_user, t_ctx,
          t_msg>>

config == <<max_active_per_user, archive_batch_size, taggers, backend>>
tables == <<active, archive>>
locals == <<a_user, a_entry, detached, n_to_move, oldest>>
io == <<nImports>>
scorer == <<r_pc, r_risk>>
chat == <<t_pc, t_user, t_ctx, t_msg>>

(* ---------------------------- rows ------------------------------------- *)
\* MemoryActive / MemoryArchive: the six columns of a row.
Row(id, user_id, timestamp, role, content, tags) ==
  [id |-> id, user_id |-> user_id, timestamp |-> timestamp, role |-> role,
   content |-> content, tags |-> tags]

Ids(table) == {r.id : r \in table}
OfUser(table, u) == {r \in table : r.user_id = u}
\* func.count(MemoryActive.id) filtered by user_id
ActiveCount(u) == Cardinality(OfUser(active, u))

(* ---------------------------- tags ------------------------------------- *)
RECURSIVE Dedup_KeepLast(_)
Dedup_KeepLast(s) ==
  IF s = <<>> THEN <<>>
  ELSE LET rest == Dedup_KeepLast(SubSeq(s, 2, Len(s)))
       IN IF \E i \in 1..Len(rest) : rest[i] = s[1] THEN rest
          ELSE <<s[1]>> \o rest

RECURSIVE Dedup(_)
\* list(dict.fromkeys(tags)): drop repeats, keep first occurrences.
Dedup(s) ==
  IF s = <<>> THEN <<>>
  ELSE LET init == Dedup(SubSeq(s, 1, Len(s) - 1))
           last == s[Len(s)]
       IN IF \E i \in 1..Len(init) : init[i] = last THEN init
          ELSE Append(init, last)

RECURSIVE RunTaggers_Abort(_, _, _)
RunTaggers_Abort(tags, outcomes, i) ==
  IF i > Len(outcomes) THEN tags
  ELSE IF outcomes[i] = "raise" THEN tags
  ELSE RunTaggers_Abort(tags \o outcomes[i], outcomes, i + 1)

RECURSIVE RunTaggers(_, _, _)
\* the loop over self.taggers: a raising tagger is skipped, an empty result
\* adds nothing, any other result is appended to tags.
RunTaggers(tags, outcomes, i) ==
  IF i > Len(outcomes) THEN tags
  ELSE IF outcomes[i] = "raise" THEN RunTaggers(tags, outcomes, i + 1)
  ELSE RunTaggers(tags \o outcomes[i], outcomes, i + 1)

\* tags column of the new entry: tags or [], taggers, dedup, then tags or None.
ComputeTags(callerTags, outcomes) ==
  LET start == IF callerTags = None THEN <<>> ELSE callerTags[1]
      all == Dedup(RunTaggers(start, outcomes, 1))
  IN IF all = <<>> THEN None ELSE Some(all)

(* ---------------------------- Init ------------------------------------- *)
\* MemoryStore.__init__ over an empty database, with one tagger configured.
Init ==
  /\ max_active_per_user \in 1..MaxCap
  /\ archive_batch_size \in 1..MaxBatch
  /\ taggers = <<"T1">>
  /\ backend \in Backends
  /\ active = {}
  /\ archive = {}
  /\ clock = 1
  /\ nextId = 1
  /\ pc = [c \in Callers |-> "idle"]
  /\ a_user = [c \in Callers |-> ""]
  /\ a_entry = [c \in Callers |-> 0]
  /\ detached = [c \in Callers |-> FALSE]
  /\ n_to_move = [c \in Callers |-> 0]
  /\ oldest = [c \in Callers |-> {}]
  /\ result = [c \in Callers |-> "none"]
  /\ nImports = 0
  /\ r_pc = "start"
  /\ r_risk = 0
  /\ t_pc = "idle"
  /\ t_user = ""
  /\ t_ctx = <<>>
  /\ t_msg = 0

(* ---------------------------- add_memory ------------------------------- *)
\* add_memory up to and including the first commit: tags are computed, the
\* entry gets a fresh uuid and the current time, and is committed to
\* memory_active.  The caller then enters the enforcer.
AddInsert(c, user_id, role, content, callerTags, outcomes) ==
  /\ pc[c] = "idle"
  /\ nextId <= MaxAdds
  /\ \E now \in {clock, clock + 1} :
       /\ clock' = now
       /\ active' = active \cup
            {Row(nextId, user_id, now, role, content,
                 ComputeTags(callerTags, outcomes))}
  /\ nextId' = nextId + 1
  /\ pc' = [pc EXCEPT ![c] = "count"]
  /\ a_user' = [a_user EXCEPT ![c] = user_id]
  /\ a_entry' = [a_entry EXCEPT ![c] = nextId]
  /\ detached' = [detached EXCEPT ![c] = FALSE]
  /\ result' = [result EXCEPT ![c] = "none"]
  /\ UNCHANGED <<scorer, config, archive, n_to_move, oldest, io>>

\* add_memory raises: finally closes the session, nothing pending is kept.
Raise(c) ==
  /\ pc' = [pc EXCEPT ![c] = "idle"]
  /\ result' = [result EXCEPT ![c] = "error"]
  /\ n_to_move' = [n_to_move EXCEPT ![c] = 0]
  /\ oldest' = [oldest EXCEPT ![c] = {}]

\* return self._to_dict(entry): the entry was expired by the last commit and
\* is reloaded from memory_active, unless this session deleted it itself (it
\* is then detached and keeps its loaded values).  A row that another
\* session has deleted meanwhile makes the reload, and so add_memory, raise.
Return(c) ==
  /\ pc' = [pc EXCEPT ![c] = "idle"]
  /\ result' = [result EXCEPT ![c] =
        IF detached'[c] \/ a_entry[c] \in Ids(active') THEN "ok" ELSE "error"]
  /\ n_to_move' = [n_to_move EXCEPT ![c] = 0]
  /\ oldest' = [oldest EXCEPT ![c] = {}]

\* mutant of EnforceCount: only the entry just added is taken to be over
\* the bound (n_to_move = 1).
EnforceCount_OneOnly(c) ==
  /\ pc[c] = "count"
  /\ UNCHANGED <<chat, scorer, config, tables, clock, nextId, a_user, a_entry, detached, io>>
  /\ LET total == ActiveCount(a_user[c])
     IN IF total <= max_active_per_user
        THEN Return(c)
        ELSE /\ n_to_move' = [n_to_move EXCEPT ![c] = 1]
             /\ pc' = [pc EXCEPT ![c] = "select"]
             /\ UNCHANGED <<oldest, result>>

\* mutant of EnforceCount: the bound test is off by one (total <= max + 1).
EnforceCount_OffByOne(c) ==
  /\ pc[c] = "count"
  /\ UNCHANGED <<chat, scorer, config, tables, clock, nextId, a_user, a_entry, detached, io>>
  /\ LET total == ActiveCount(a_user[c])
     IN IF total <= max_active_per_user + 1
        THEN Return(c)
        ELSE /\ n_to_move' = [n_to_move EXCEPT ![c] = total - max_active_per_user]
             /\ pc' = [pc EXCEPT ![c] = "select"]
             /\ UNCHANGED <<oldest, result>>

\* _enforce_max_active_for_user, the count: return when the user is within
\* the bound, else n_to_move = total - max_active_per_user.
EnforceCount(c) ==
  /\ pc[c] = "count"
  /\ UNCHANGED <<chat, scorer, config, tables, clock, nextId, a_user, a_entry, detached, io>>
  /\ LET total == ActiveCount(a_user[c])
     IN IF total <= max_active_per_user
        THEN Return(c)
        ELSE /\ n_to_move' = [n_to_move EXCEPT ![c] = total - max_active_per_user]
             /\ pc' = [pc EXCEPT ![c] = "select"]
             /\ UNCHANGED <<oldest, result>>

\* mutant of OldestBatches: the select is not filtered by user_id.
OldestBatches_AnyUser(u, n) ==
  LET rows == active
      k == Min(n, Cardinality(rows))
  IN {S \in SUBSET rows :
        /\ Cardinality(S) = k
        /\ \A r \in S : \A s \in rows \ S : r.timestamp <= s.timestamp}

\* mutant of OldestBatches: the order is descending (newest first).
OldestBatches_Newest(u, n) ==
  LET rows == OfUser(active, u)
      k == Min(n, Cardinality(rows))
  IN {S \in SUBSET rows :
        /\ Cardinality(S) = k
        /\ \A r \in S : \A s \in rows \ S : r.timestamp >= s.timestamp}

\* ORDER BY timestamp ASC LIMIT n over the user's active rows: the n rows of
\* lowest timestamp.  SQL leaves the order of rows of equal timestamp open,
\* so every choice among ties is a possible answer.
OldestBatches(u, n) ==
  LET rows == OfUser(active, u)
      k == Min(n, Cardinality(rows))
  IN {S \in SUBSET rows :
        /\ Cardinality(S) = k
        /\ \A r \in S : \A s \in rows \ S : r.timestamp <= s.timestamp}

\* the head of the while loop: batch_size, the select of the oldest batch,
\* and the break when it is empty.
EnforceSelect(c) ==
  /\ pc[c] = "select"
  /\ UNCHANGED <<chat, scorer, config, tables, clock, nextId, a_user, a_entry, detached, io>>
  /\ LET batch_size == Min(archive_batch_size, n_to_move[c])
     IN \E S \in OldestBatches(a_user[c], batch_size) :
          IF S = {}
          THEN Return(c)
          ELSE /\ oldest' = [oldest EXCEPT ![c] = S]
               /\ pc' = [pc EXCEPT ![c] = "commit"]
               /\ UNCHANGED <<n_to_move, result>>

\* mutant of ArchiveItem: the copy loses the tags.
ArchiveItem_NoTags(item) ==
  Row(item.id, item.user_id, item.timestamp, item.role, item.content, None)

\* MemoryArchive(id=item.id, ...): the archive copy of an active row.
ArchiveItem(item) ==
  Row(item.id, item.user_id, item.timestamp, item.role, item.content, item.tags)

\* mutant of EnforceCommit: n_to_move is not decreased after a batch.
EnforceCommit_NoDecrement(c) ==
  /\ pc[c] = "commit"
  /\ UNCHANGED <<chat, scorer, config, clock, nextId, a_user, a_entry, io>>
  /\ IF Ids(oldest[c]) \cap Ids(archive) # {}
     THEN /\ Raise(c)
          /\ UNCHANGED <<tables, detached>>
     ELSE /\ archive' = archive \cup {ArchiveItem(item) : item \in oldest[c]}
          /\ active' = {r \in active : r.id \notin Ids(oldest[c])}
          /\ detached' = [detached EXCEPT ![c] =
                            @ \/ a_entry[c] \in Ids(oldest[c])]
          /\ oldest' = [oldest EXCEPT ![c] = {}]
          /\ pc' = [pc EXCEPT ![c] = "select"]
          /\ UNCHANGED <<n_to_move, result>>

\* mutant of EnforceCommit: the batch is deleted from memory_active without
\* being written to memory_archive.
EnforceCommit_Evict(c) ==
  /\ pc[c] = "commit"
  /\ UNCHANGED <<chat, scorer, config, clock, nextId, a_user, a_entry, io, archive>>
  /\ active' = {r \in active : r.id \notin Ids(oldest[c])}
  /\ detached' = [detached EXCEPT ![c] = @ \/ a_entry[c] \in Ids(oldest[c])]
  /\ LET left == n_to_move[c] - Cardinality(oldest[c])
     IN IF left > 0
        THEN /\ n_to_move' = [n_to_move EXCEPT ![c] = left]
             /\ oldest' = [oldest EXCEPT ![c] = {}]
             /\ pc' = [pc EXCEPT ![c] = "select"]
             /\ UNCHANGED result
        ELSE Return(c)

\* mutant of EnforceCommit: the active rows are copied, not deleted.
EnforceCommit_Copy(c) ==
  /\ pc[c] = "commit"
  /\ UNCHANGED <<chat, scorer, config, clock, nextId, a_user, a_entry, io, active, detached>>
  /\ archive' = archive \cup {ArchiveItem(item) : item \in oldest[c]}
  /\ LET left == n_to_move[c] - Cardinality(oldest[c])
     IN IF left > 0
        THEN /\ n_to_move' = [n_to_move EXCEPT ![c] = left]
             /\ oldest' = [oldest EXCEPT ![c] = {}]
             /\ pc' = [pc EXCEPT ![c] = "select"]
             /\ UNCHANGED result
        ELSE Return(c)

\* mutant of EnforceCommit: an if in place of the while, one batch per add.
EnforceCommit_OneBatch(c) ==
  /\ pc[c] = "commit"
  /\ UNCHANGED <<chat, scorer, config, clock, nextId, a_user, a_entry, io>>
  /\ IF Ids(oldest[c]) \cap Ids(archive) # {}
     THEN /\ Raise(c)
          /\ UNCHANGED <<tables, detached>>
     ELSE /\ archive' = archive \cup {ArchiveItem(item) : item \in oldest[c]}
          /\ active' = {r \in active : r.id \notin Ids(oldest[c])}
          /\ detached' = [detached EXCEPT ![c] =
                            @ \/ a_entry[c] \in Ids(oldest[c])]
          /\ Return(c)

\* the body of the while loop: one archive insert and one active delete per
\* selected item, one commit for the batch.  The insert of an id that
\* memory_archive already holds violates its primary key: the commit raises,
\* the transaction is rolled back and add_memory raises.
EnforceCommit(c) ==
  /\ pc[c] = "commit"
  /\ UNCHANGED <<chat, scorer, config, clock, nextId, a_user, a_entry, io>>
  /\ IF Ids(oldest[c]) \cap Ids(archive) # {}
     THEN /\ Raise(c)
          /\ UNCHANGED <<tables, detached>>
     ELSE /\ archive' = archive \cup {ArchiveItem(item) : item \in oldest[c]}
          /\ active' = {r \in active : r.id \notin Ids(oldest[c])}
          /\ detached' = [detached EXCEPT ![c] =
                            @ \/ a_entry[c] \in Ids(oldest[c])]
          /\ LET left == n_to_move[c] - Cardinality(oldest[c])
             IN IF left > 0
                THEN /\ n_to_move' = [n_to_move EXCEPT ![c] = left]
                     /\ oldest' = [oldest EXCEPT ![c] = {}]
                     /\ pc' = [pc EXCEPT ![c] = "select"]
                     /\ UNCHANGED result
                ELSE Return(c)

\* the commit of the new entry fails (the storage is unavailable): nothing
\* is stored and add_memory raises.
AddInsertFail(c) ==
  /\ pc[c] = "idle"
  /\ nextId <= MaxAdds
  /\ Raise(c)
  /\ UNCHANGED <<chat, scorer, config, tables, clock, nextId, a_user, a_entry, detached, io>>

\* mutant of StorageFail: the batch is committed row by row, so a failure in
\* the middle of a batch leaves its first row moved.
StorageFail_Partial(c) ==
  /\ pc[c] \in {"count", "select", "commit"}
  /\ Raise(c)
  /\ UNCHANGED <<chat, scorer, config, clock, nextId, a_user, a_entry, detached, io>>
  /\ IF pc[c] = "commit"
     THEN \E item \in oldest[c] :
            /\ archive' = archive \cup {ArchiveItem(item)}
            /\ active' = active \ {item}
     ELSE UNCHANGED tables

\* a storage call of the enforcer fails (the count, the select or the commit
\* of a batch), or the process stops there: the open transaction is rolled
\* back, earlier commits stay, and add_memory raises.
StorageFail(c) ==
  /\ pc[c] \in {"count", "select", "commit"}
  /\ Raise(c)
  /\ UNCHANGED <<chat, scorer, config, tables, clock, nextId, a_user, a_entry, detached, io>>

\* one call of add_memory by caller c, its arguments and the taggers'
\* behaviour drawn from the given sets.
AddMemory(c, users, roles, callerTagSets) ==
  \E user_id \in users, role \in roles, content \in Contents,
     callerTags \in callerTagSets,
     outcomes \in [1..Len(taggers) -> TaggerOutcomes] :
       /\ AddInsert(c, user_id, role, content, callerTags, outcomes)
       /\ UNCHANGED chat

(* ---------------------------- export_memory --------------------------- *)
NoUser == ""                      \* user_id=None (or any falsy user_id)
\* a datetime object, and the string datetime.isoformat() makes of it
DateTime(t) == [kind |-> "datetime", t |-> t]
IsoFormat(t) == [kind |-> "str", t |-> t]

\* _to_dict: the dict of a row; the timestamp becomes its ISO string and
\* tags of None become [].
ToDict(row) ==
  [id |-> Some(row.id), user_id |-> Some(row.user_id),
   timestamp |-> Some(IsoFormat(row.timestamp)),
   role |-> Some(row.role), content |-> Some(row.content),
   tags |-> Some(IF row.tags = None THEN <<>> ELSE row.tags[1])]

RECURSIVE OrderAsc(_)
\* order_by(timestamp.asc()).all(): every sequence of the rows in
\* non-decreasing timestamp order (rows of equal timestamp in any order).
OrderAsc(rows) ==
  IF rows = {} THEN {<<>>}
  ELSE UNION {{<<r>> \o rest : rest \in OrderAsc(rows \ {r})} :
                r \in {x \in rows : \A y \in rows : x.timestamp <= y.timestamp}}

\* the possible results of export_memory(user_id) over the given tables.
ExportResults(act, arc, user_id) ==
  LET a == IF user_id # NoUser THEN OfUser(act, user_id) ELSE act
      ar == IF user_id # NoUser THEN OfUser(arc, user_id) ELSE arc
  IN {[active |-> [i \in 1..Len(x) |-> ToDict(x[i])],
       archive |-> [i \in 1..Len(y) |-> ToDict(y[i])]] :
        x \in OrderAsc(a), y \in OrderAsc(ar)}

(* ---------------------------- import_memory --------------------------- *)
\* an entry of a payload list; None stands for a missing key.
Entry(id, user_id, timestamp, role, content, tags) ==
  [id |-> id, user_id |-> user_id, timestamp |-> timestamp, role |-> role,
   content |-> content, tags |-> tags]

\* payloads written by hand: a bulk import of two active records, a record
\* that gives only its user_id, a record without user_id, a complete
\* active record followed by an archive record without user_id, and one
\* archive record.
HandPayloads ==
  {[active |-> <<Entry(Some(101), Some("u1"), Some(DateTime(0)),
                       Some("assistant"), Some("sad"), Some(<<"a">>)),
                 Entry(Some(102), Some("u1"), Some(DateTime(1)),
                       Some("user"), Some("sad"), None)>>,
    archive |-> <<>>],
   [active |-> <<Entry(None, Some("u2"), None, None, None, None)>>,
    archive |-> <<>>],
   [active |-> <<Entry(Some(101), None, None, None, None, None)>>,
    archive |-> <<>>],
   [active |-> <<Entry(Some(101), Some("u1"), Some(DateTime(0)),
                       Some("user"), Some("sad"), None)>>,
    archive |-> <<Entry(Some(102), None, Some(DateTime(0)),
                        Some("user"), Some("sad"), None)>>],
   [active |-> <<>>,
    archive |-> <<Entry(Some(103), Some("u1"), Some(DateTime(2)),
                        Some("user"), Some("sad"), Some(<<"a">>))>>]}

\* the entries of a list that give no id: each gets a fresh uuid.
FreshBefore(entries, i) ==
  Cardinality({j \in 1..(i - 1) : entries[j].id = None})

\* MemoryActive(...) / MemoryArchive(...) built from entry i of a list:
\* id or a new uuid, timestamp or now, role or "user", content or "", tags.
\* The timestamp keeps the value the payload gave (a datetime or a string).
ImportItem(entries, i, now, firstId) ==
  LET e == entries[i]
  IN Row(IF e.id = None THEN firstId + FreshBefore(entries, i) ELSE e.id[1],
         e.user_id[1],
         IF e.timestamp = None THEN DateTime(now) ELSE e.timestamp[1],
         IF e.role = None \/ e.role = Some("") THEN "user" ELSE e.role[1],
         IF e.content = None THEN "" ELSE e.content[1],
         IF e.tags = None THEN None ELSE e.tags)

RECURSIVE MergeAll(_, _, _, _, _)
\* session.merge(item) for the entries i.. of a list: insert or update by
\* primary key (no list of the model names an id twice).
MergeAll(table, entries, i, now, firstId) ==
  IF i > Len(entries) THEN table
  ELSE LET item == ImportItem(entries, i, now, firstId)
       IN MergeAll({r \in table : r.id # item.id} \cup {item},
                   entries, i + 1, now, firstId)

\* what the DateTime column stores at the flush: a datetime as it is; a
\* string is parsed by PostgreSQL, while the SQLite dialect accepts datetime
\* objects only and raises TypeError.
StoredRow(r) == [r EXCEPT !.timestamp = r.timestamp.t]
FlushRaises(table) ==
  backend = "sqlite" /\ \E r \in table : r.timestamp.kind = "str"

InSession(table) == {[r EXCEPT !.timestamp = DateTime(r.timestamp)] : r \in table}
InPending(table, stored) == table \ InSession(stored)

HasUser(e) == e.user_id # None
ImportOutcome_SkipNoUser(act, arc, payload, merge, now, firstId) ==
  LET act0 == IF merge THEN act ELSE {}
      arc0 == IF merge THEN arc ELSE {}
      la == SelectSeq(payload.active, HasUser)
      lr == SelectSeq(payload.archive, HasUser)
      act1 == MergeAll(InSession(act0), la, 1, now, firstId)
      arc1 == MergeAll(InSession(arc0), lr, 1, now,
                       firstId + FreshBefore(la, Len(la) + 1))
  IN IF FlushRaises(InPending(act1, act0)) \/ FlushRaises(InPending(arc1, arc0))
     THEN [active |-> act0, archive |-> arc0, ok |-> FALSE]
     ELSE [active |-> {StoredRow(r) : r \in act1},
           archive |-> {StoredRow(r) : r \in arc1}, ok |-> TRUE]

\* the outcome of import_memory(payload, merge) over the given tables:
\* with merge=False both tables are emptied and that is committed; then
\* every entry is merged and the whole is committed, unless an entry has no
\* user_id (KeyError) or the flush raises, which rolls the merges back.
ImportOutcome(act, arc, payload, merge, now, firstId) ==
  LET act0 == IF merge THEN act ELSE {}
      arc0 == IF merge THEN arc ELSE {}
      nFreshA == FreshBefore(payload.active, Len(payload.active) + 1)
      noUser == \/ \E i \in 1..Len(payload.active) :
                     payload.active[i].user_id = None
                \/ \E i \in 1..Len(payload.archive) :
                     payload.archive[i].user_id = None
      act1 == MergeAll(InSession(act0), payload.active, 1, now, firstId)
      arc1 == MergeAll(InSession(arc0), payload.archive, 1, now,
                       firstId + nFreshA)
  IN IF noUser
     THEN [active |-> act0, archive |-> arc0, ok |-> FALSE]
     ELSE IF FlushRaises(InPending(act1, act0)) \/ FlushRaises(InPending(arc1, arc0))
     THEN [active |-> act0, archive |-> arc0, ok |-> FALSE]
     ELSE [active |-> {StoredRow(r) : r \in act1},
           archive |-> {StoredRow(r) : r \in arc1}, ok |-> TRUE]

\* uuids a payload consumes
NumFresh(payload) ==
  FreshBefore(payload.active, Len(payload.active) + 1)
    + FreshBefore(payload.archive, Len(payload.archive) + 1)

\* some entry gives no timestamp, so that _now_utc() is read
NeedsNow(payload) ==
  \/ \E i \in 1..Len(payload.active) : payload.active[i].timestamp = None
  \/ \E i \in 1..Len(payload.archive) : payload.archive[i].timestamp = None

\* import_memory(payload, merge).
ImportMemory(c, payload, merge) ==
  /\ pc[c] = "idle"
  /\ nImports < MaxImports
  /\ nextId + NumFresh(payload) <= MaxIOAdds + 1
  /\ \E now \in IF NeedsNow(payload) THEN {clock, clock + 1} ELSE {clock} :
       LET out == ImportOutcome(active, archive, payload, merge, now, nextId)
       IN /\ clock' = now
          /\ active' = out.active
          /\ archive' = out.archive
          /\ result' = [result EXCEPT ![c] = IF out.ok THEN "ok" ELSE "error"]
  /\ nextId' = nextId + NumFresh(payload)
  /\ nImports' = nImports + 1
  /\ UNCHANGED <<chat, scorer, config, pc, locals>>

\* import_memory(export_memory(user_id), merge): the round trip.
ImportExport(c, user_id, merge) ==
  \E payload \in ExportResults(active, archive, user_id) :
    ImportMemory(c, payload, merge)

(* ------------- _enforce_max_active_for_user as a whole ---------------- *)
\* ORDER BY timestamp ASC LIMIT n over the given rows (ties in any order).
OldestOf(rows, n) ==
  LET k == Min(n, Cardinality(rows))
  IN {S \in SUBSET rows :
        /\ Cardinality(S) = k
        /\ \A r \in S : \A s \in rows \ S : r.timestamp <= s.timestamp}

RECURSIVE EnforceLoop(_, _, _, _, _)
\* the while loop run to its end over the given tables with the given
\* batch size: the possible final tables, and whether a batch commit raised
\* on the archive primary key (the batches committed before it stay).
EnforceLoop(act, arc, user_id, n, batch) ==
  IF n <= 0 THEN {[active |-> act, archive |-> arc, ok |-> TRUE]}
  ELSE UNION {
         IF S = {} THEN {[active |-> act, archive |-> arc, ok |-> TRUE]}
         ELSE IF Ids(S) \cap Ids(arc) # {}
         THEN {[active |-> act, archive |-> arc, ok |-> FALSE]}
         ELSE EnforceLoop(act \ S, arc \cup {ArchiveItem(item) : item \in S},
                          user_id, n - Cardinality(S), batch) :
         S \in OldestOf(OfUser(act, user_id), Min(batch, n))}

\* _enforce_max_active_for_user(session, user_id) with archive_batch_size
\* = batch.
Enforce(act, arc, user_id, batch) ==
  LET total == Cardinality(OfUser(act, user_id))
  IN IF total <= max_active_per_user
     THEN {[active |-> act, archive |-> arc, ok |-> TRUE]}
     ELSE EnforceLoop(act, arc, user_id, total - max_active_per_user, batch)

(* ------------------------------- queries ------------------------------ *)
\* what a query call gives back: a list of dicts, or an exception.
Returned(rows) == [ok |-> TRUE, rows |-> rows]
Failed == [ok |-> FALSE, rows |-> <<>>]

RECURSIVE OrderDesc(_)
\* order_by(timestamp.desc()): every sequence of the rows in non-increasing
\* timestamp order (rows of equal timestamp in any order).
OrderDesc(rows) ==
  IF rows = {} THEN {<<>>}
  ELSE UNION {{<<r>> \o rest : rest \in OrderDesc(rows \ {r})} :
                r \in {x \in rows : \A y \in rows : x.timestamp >= y.timestamp}}

Take(s, n) == SubSeq(s, 1, Min(n, Len(s)))
Dicts(s) == [i \in 1..Len(s) |-> ToDict(s[i])]

\* q.order_by(timestamp.desc()).limit(n).all(): LIMIT n keeps the first n
\* rows; a negative LIMIT means no limit in SQLite and is an error in
\* PostgreSQL.
LimitAll(rows, n) ==
  IF n < 0 /\ backend = "postgresql" THEN {Failed}
  ELSE {Returned(Dicts(IF n < 0 THEN s ELSE Take(s, n))) : s \in OrderDesc(rows)}

\* q.all() without a limit.
All(rows) == {Returned(Dicts(s)) : s \in OrderDesc(rows)}

GetRelevantMemory_Archive(user_id, recent_k) ==
  LimitAll(OfUser(active \cup archive, user_id), recent_k)

\* get_relevant_memory(user_id, recent_k): the possible outcomes.
GetRelevantMemory(user_id, recent_k) ==
  LimitAll(OfUser(active, user_id), recent_k)

\* q.limit(limit).all() if limit else q.all(): a limit of None or 0 is
\* no limit.
LimitIfAny(rows, limit) ==
  IF limit # None /\ limit[1] # 0 THEN LimitAll(rows, limit[1]) ELSE All(rows)

\* results.extend(...): the second list after the first.
Extend(first, second) ==
  {IF a.ok /\ b.ok THEN Returned(a.rows \o b.rows) ELSE Failed :
     a \in first, b \in second}

GetMemory_ArchiveUncapped(user_id, limit, include_archive) ==
  IF include_archive
  THEN Extend(LimitIfAny(OfUser(active, user_id), limit),
              All(OfUser(archive, user_id)))
  ELSE LimitIfAny(OfUser(active, user_id), limit)

\* get_memory(user_id, limit, include_archive): the possible outcomes.
GetMemory(user_id, limit, include_archive) ==
  IF include_archive
  THEN Extend(LimitIfAny(OfUser(active, user_id), limit),
              LimitIfAny(OfUser(archive, user_id), limit))
  ELSE LimitIfAny(OfUser(active, user_id), limit)

\* the characters of the texts of the model (contents, tags and queries)
Chars(text) ==
  CASE text = "" -> <<>>
    [] text = "sad" -> <<"s", "a", "d">>
    [] text = "SAD" -> <<"S", "A", "D">>
    [] text = "a" -> <<"a">>
    [] text = "b" -> <<"b">>
    [] text = "c" -> <<"c">>
    [] text = "x" -> <<"x">>
\* str.lower() / SQL lower(), character by character
LowerChar(ch) ==
  CASE ch = "S" -> "s" [] ch = "A" -> "a" [] ch = "D" -> "d" [] OTHER -> ch
Lower(chars) == [i \in 1..Len(chars) |-> LowerChar(chars[i])]
\* lower(text) LIKE '%' || query.lower() || '%'
Like(text, query) ==
  LET t == Lower(Chars(text))
      q == Lower(Chars(query))
  IN \E i \in 1..(Len(t) - Len(q) + 1) : SubSeq(t, i, i + Len(q) - 1) = q

\* func.json_each_text(tags) inside the WHERE clause: SQLite has no function
\* of that name (it has the table-valued json_each), and PostgreSQL does not
\* allow its set-returning json_each_text in WHERE; the statement is
\* rejected when it is executed, whatever the rows are.
TagMatchRaises == backend \in {"sqlite", "postgresql"}

\* the rows of a table the search filter keeps: the user's rows whose
\* content, or one of whose tags, contains the query.
Matching(table, user_id, query) ==
  {r \in OfUser(table, user_id) :
     \/ Like(r.content, query)
     \/ r.tags # None /\ \E i \in 1..Len(r.tags[1]) : Like(r.tags[1][i], query)}

SearchQuery(table, user_id, query, limit) ==
  IF TagMatchRaises THEN {Failed}
  ELSE LimitIfAny(Matching(table, user_id, query), limit)

\* search_memory(user_id, query, include_archive, limit): the possible
\* outcomes; the combined list is cut to limit.
SearchMemory(user_id, query, include_archive, limit) ==
  LET found == IF include_archive
               THEN Extend(SearchQuery(active, user_id, query, limit),
                           SearchQuery(archive, user_id, query, limit))
               ELSE SearchQuery(active, user_id, query, limit)
  IN {IF res.ok /\ limit # None /\ limit[1] # 0
      THEN Returned(Take(res.rows, limit[1])) ELSE res : res \in found}

\* GET /memory/{user_id}/relevant: k: int = Query(5, ge=1, le=MaxRouteK);
\* FastAPI answers a k outside the range with a validation error before the
\* store is called.
MaxRouteK == 200
GetRelevantRoute(user_id, k) ==
  IF k < 1 \/ k > MaxRouteK THEN {Failed} ELSE GetRelevantMemory(user_id, k)

(* ------------------------ calculate_risk_score ------------------------ *)
\* src/src/ai/risk_score_engine.py.  The message and the context enter
\* through the signals the function extracts from them.
Labels == {"POSITIVE", "NEGATIVE", "NEUTRAL"}
\* a float score: a finite one in eighths, or nan / inf / -inf
Finite(eighths) == [kind |-> "finite", eighths |-> eighths]
NonFinite(kind) == [kind |-> kind, eighths |-> 0]
Scores ==
  {Finite(e) : e \in (0 - 8 * MaxScore)..(8 * MaxScore)}
    \cup {NonFinite(k) : k \in {"nan", "inf", "-inf"}}
\* the sentiment argument: a dict with label and score, or something else
Sentiments ==
  {[dict |-> TRUE, label |-> l, score |-> sc] : l \in Labels, sc \in Scores}
    \cup {[dict |-> FALSE, label |-> "NEUTRAL", score |-> Finite(0)]}
NCatastrophizing == 2      \* len(CATASTROPHIZING_PATTERNS)
NRumination == 4           \* len(RUMINATION_PATTERNS)
NNegation == 5             \* len(NEGATION_EMOTION_PATTERNS)

\* int(score * 4) of a finite score: truncation toward zero
IntScoreTimes4(score) ==
  IF score.eighths >= 0 THEN score.eighths \div 2
  ELSE 0 - ((0 - score.eighths) \div 2)

Max(a, b) == IF a > b THEN a ELSE b

\* lines 116-135: the sentiment weighting; int() of nan or inf raises.
RiskSentiment(sentiment) ==
  /\ r_pc = "start"
  /\ LET label == IF sentiment.dict THEN sentiment.label ELSE "NEUTRAL"
         score == IF sentiment.dict THEN sentiment.score ELSE Finite(0)
     IN IF label = "NEGATIVE"
        THEN IF score.kind = "finite"
             THEN r_risk' = r_risk + IntScoreTimes4(score) /\ r_pc' = "severe"
             ELSE r_risk' = r_risk /\ r_pc' = "raised"
        ELSE IF label = "NEUTRAL"
        THEN r_risk' = r_risk /\ r_pc' = "severe"
        ELSE r_risk' = r_risk - 1 /\ r_pc' = "severe"
  /\ UNCHANGED <<chat, config, tables, clock, nextId, pc, locals, result, io>>

\* lines 140-146: +6 per severe keyword in the text, +2 if the context
\* holds one.
RiskSevere(hits, inContext) ==
  /\ r_pc = "severe"
  /\ r_risk' = r_risk + 6 * hits + (IF inContext THEN 2 ELSE 0)
  /\ r_pc' = "moderate"
  /\ UNCHANGED <<chat, config, tables, clock, nextId, pc, locals, result, io>>

\* lines 151-156: +3 per moderate keyword in the text, +1 if the context
\* holds one.
RiskModerate(hits, inContext) ==
  /\ r_pc = "moderate"
  /\ r_risk' = r_risk + 3 * hits + (IF inContext THEN 1 ELSE 0)
  /\ r_pc' = "patterns"
  /\ UNCHANGED <<chat, config, tables, clock, nextId, pc, locals, result, io>>

\* lines 163-175: +2 per catastrophizing pattern, +2 per rumination
\* pattern, +1 per negation pattern found.
RiskPatterns(catastrophizing, rumination, negation) ==
  /\ r_pc = "patterns"
  /\ r_risk' = r_risk + 2 * catastrophizing + 2 * rumination + negation
  /\ r_pc' = "signals"
  /\ UNCHANGED <<chat, config, tables, clock, nextId, pc, locals, result, io>>

\* lines 182-198: +1 each for three exclamation marks, two words in
\* capitals, a message shorter than 5 or longer than 500 characters, three
\* distress words.
RiskSignals(exclamations, capitals, length, repeated) ==
  /\ r_pc = "signals"
  /\ r_risk' = r_risk + (IF exclamations THEN 1 ELSE 0)
                      + (IF capitals THEN 1 ELSE 0)
                      + (IF length \in {"short", "long"} THEN 1 ELSE 0)
                      + (IF repeated THEN 1 ELSE 0)
  /\ r_pc' = "clamp"
  /\ UNCHANGED <<chat, config, tables, clock, nextId, pc, locals, result, io>>

\* line 203: risk = max(0, min(10, risk)), then return risk.
RiskClamp ==
  /\ r_pc = "clamp"
  /\ r_risk' = Max(0, Min(10, r_risk))
  /\ r_pc' = "done"
  /\ UNCHANGED <<chat, config, tables, clock, nextId, pc, locals, result, io>>

(* ---------------------------- chat turn ------------------------------ *)
\* JournieAgent.generate_response, one caller of the store.
ContextK == 6              \* build_context(user_id, limit=6)
Replies == {"x"}           \* response.text.strip()
ChatLabels == {"NEGATIVE", "NEUTRAL"}
ChatRisks == {"0"}       \* str(risk) inside the f-string

\* build_context: role and content of every record get_relevant_memory
\* returned, in its order.
BuildContext(mem) ==
  [i \in 1..Len(mem) |-> [role |-> mem[i].role[1], content |-> mem[i].content[1]]]

\* the ids of the records a context was read from
ContextIds(mem) == {mem[i].id[1] : i \in 1..Len(mem)}

\* tags of the user message and of the assistant reply
UserTags(label, risk) ==
  Some(<<"chat_message", "sentiment:" \o label, "risk:" \o risk>>)
ReplyTags == Some(<<"strategy:CBT", "assistant_response">>)

\* steps 1 and 2 up to build_context: the sentiment is analysed and the
\* context is read from the store; nothing is written.
ChatContext(c, user_id) ==
  /\ t_pc \in {"idle", "done", "model_failed", "risk_failed"}
  /\ pc[c] = "idle"
  /\ nextId + 1 <= MaxAdds
  /\ \E res \in GetRelevantMemory(user_id, ContextK) :
       /\ res.ok
       /\ t_ctx' = res.rows
  /\ t_pc' = "context"
  /\ t_user' = user_id
  /\ t_msg' = 0
  /\ UNCHANGED <<scorer, config, tables, clock, nextId, pc, locals, result, io>>

\* calculate_risk_score raises (a non-finite sentiment score): the turn
\* ends before anything is stored.
ChatRiskFail ==
  /\ t_pc = "context"
  /\ t_pc' = "risk_failed"
  /\ UNCHANGED <<t_user, t_ctx, t_msg>>
  /\ UNCHANGED <<scorer, config, tables, clock, nextId, pc, locals, result, io>>

ChatStoreUser_Reread(c) ==
  /\ t_pc = "context"
  /\ \E content \in Contents, label \in ChatLabels, risk \in ChatRisks,
        outcomes \in [1..Len(taggers) -> TaggerOutcomes] :
       AddInsert(c, t_user, "user", content, UserTags(label, risk), outcomes)
  /\ t_pc' = "user"
  /\ t_msg' = nextId
  /\ \E mem \in {r.rows : r \in {x \in LimitAll(OfUser(active', t_user), ContextK) : x.ok}} :
       t_ctx' = mem
  /\ UNCHANGED t_user

\* step 2: the risk is computed and add_memory stores the user message.
ChatStoreUser(c) ==
  /\ t_pc = "context"
  /\ \E content \in Contents, label \in ChatLabels, risk \in ChatRisks,
        outcomes \in [1..Len(taggers) -> TaggerOutcomes] :
       AddInsert(c, t_user, "user", content, UserTags(label, risk), outcomes)
  /\ t_pc' = "user"
  /\ t_msg' = nextId
  /\ UNCHANGED <<t_user, t_ctx>>

\* step 6: model.generate_content on the instructions, the context and the
\* user message, once add_memory has returned; it answers or raises, and
\* nothing catches what it raises.
ChatModel(c) ==
  /\ t_pc = "user"
  /\ pc[c] = "idle"
  /\ result[c] = "ok"
  /\ t_pc' \in {"model", "model_failed"}
  /\ UNCHANGED <<t_user, t_ctx, t_msg>>
  /\ UNCHANGED <<scorer, config, tables, clock, nextId, pc, locals, result, io>>

\* step 7: add_memory stores the assistant reply.
ChatStoreReply(c) ==
  /\ t_pc = "model"
  /\ \E content \in Replies,
        outcomes \in [1..Len(taggers) -> TaggerOutcomes] :
       AddInsert(c, t_user, "assistant", content, ReplyTags, outcomes)
  /\ t_pc' = "reply"
  /\ UNCHANGED <<t_user, t_ctx, t_msg>>

\* step 8: the response is returned once add_memory has returned.
ChatReturn(c) ==
  /\ t_pc = "reply"
  /\ pc[c] = "idle"
  /\ result[c] = "ok"
  /\ t_pc' = "done"
  /\ UNCHANGED <<t_user, t_ctx, t_msg>>
  /\ UNCHANGED <<scorer, config, tables, clock, nextId, pc, locals, result, io>>

(* ---------------------------- specifications --------------------------- *)
\* one caller, add_memory only, no storage failure.
Next ==
  \/ AddMemory(1, Users, {"user"}, CallerTags)
  \/ EnforceCount(1)
  \/ EnforceSelect(1)
  \/ EnforceCommit(1)

Spec == Init /\ [][Next]_vars

\* one caller, add_memory only, with storage failures.
NextFail ==
  \/ AddMemory(1, Users, {"user"}, {None})
  \/ AddInsertFail(1)
  \/ EnforceCount(1)
  \/ EnforceSelect(1)
  \/ EnforceCommit(1)
  \/ StorageFail(1)

SpecFail == Init /\ [][NextFail]_vars

\* a deterministic tagger is modelled by what it does with the content:
\* it raises, returns nothing, or returns a list of tags.
TagFns == {"raise", <<>>, <<"a">>, <<"b", "a">>, <<"c">>}
WideCallerTags == {None, Some(<<"a", "a">>), Some(<<"c", "b">>)}

\* MemoryStore(taggers=...) over an empty database, with up to NTaggers
\* taggers configured.
InitTags ==
  /\ max_active_per_user \in 1..MaxCap
  /\ archive_batch_size \in 1..MaxBatch
  /\ taggers \in UNION {[1..n -> TagFns] : n \in 0..NTaggers}
  /\ backend \in Backends
  /\ active = {}
  /\ archive = {}
  /\ clock = 1
  /\ nextId = 1
  /\ pc = [c \in Callers |-> "idle"]
  /\ a_user = [c \in Callers |-> ""]
  /\ a_entry = [c \in Callers |-> 0]
  /\ detached = [c \in Callers |-> FALSE]
  /\ n_to_move = [c \in Callers |-> 0]
  /\ oldest = [c \in Callers |-> {}]
  /\ result = [c \in Callers |-> "none"]
  /\ nImports = 0
  /\ r_pc = "start"
  /\ r_risk = 0
  /\ t_pc = "idle"
  /\ t_user = ""
  /\ t_ctx = <<>>
  /\ t_msg = 0

\* one caller, add_memory with the configured taggers run on the content.
NextTags ==
  \/ /\ nextId <= MaxTagAdds
     /\ \E callerTags \in WideCallerTags :
          /\ AddInsert(1, "u1", "user", "sad", callerTags, taggers)
          /\ UNCHANGED chat
  \/ EnforceCount(1)
  \/ EnforceSelect(1)
  \/ EnforceCommit(1)

SpecTags == InitTags /\ [][NextTags]_vars

\* one caller at a time: add_memory, export_memory and import_memory.
NextIO ==
  \/ nextId <= MaxIOAdds /\ AddMemory(1, Users, Roles, {None})
  \/ EnforceCount(1)
  \/ EnforceSelect(1)
  \/ EnforceCommit(1)
  \/ \E user_id \in Users \cup {NoUser}, merge \in BOOLEAN :
       ImportExport(1, user_id, merge)
  \/ \E payload \in HandPayloads, merge \in BOOLEAN :
       ImportMemory(1, payload, merge)

SpecIO == Init /\ [][NextIO]_vars

\* payloads for the comparison of batch sizes: one active record, and the
\* bulk import that names it again after an older record.
BatchPayloads ==
  {[active |-> <<Entry(Some(102), Some("u1"), Some(DateTime(1)),
                       Some("user"), Some("sad"), None)>>,
    archive |-> <<>>],
   [active |-> <<Entry(Some(101), Some("u1"), Some(DateTime(0)),
                       Some("assistant"), Some("sad"), Some(<<"a">>)),
                 Entry(Some(102), Some("u1"), Some(DateTime(1)),
                       Some("user"), Some("sad"), None)>>,
    archive |-> <<>>]}

\* one caller: adds for one user and merging imports.
NextBatch ==
  \/ nextId <= MaxBatchAdds /\ AddMemory(1, {"u1"}, {"user"}, {None})
  \/ EnforceCount(1)
  \/ EnforceSelect(1)
  \/ EnforceCommit(1)
  \/ \E payload \in BatchPayloads : ImportMemory(1, payload, TRUE)

SpecBatch == Init /\ [][NextBatch]_vars

\* the same, with a caller that has entered add_memory going on to run
\* its next statement (the code never waits inside the enforcer).
SpecBatchLive ==
  /\ SpecBatch
  /\ WF_vars(EnforceCount(1))
  /\ WF_vars(EnforceSelect(1))
  /\ WF_vars(EnforceCommit(1))

\* one call of calculate_risk_score.
NextRisk ==
  \/ \E sentiment \in Sentiments : RiskSentiment(sentiment)
  \/ \E hits \in 0..MaxHits, inContext \in BOOLEAN : RiskSevere(hits, inContext)
  \/ \E hits \in 0..MaxHits, inContext \in BOOLEAN : RiskModerate(hits, inContext)
  \/ \E catastrophizing \in 0..NCatastrophizing, rumination \in 0..NRumination,
        negation \in 0..NNegation :
       RiskPatterns(catastrophizing, rumination, negation)
  \/ \E exclamations \in BOOLEAN, capitals \in BOOLEAN,
        length \in {"short", "normal", "long"}, repeated \in BOOLEAN :
       RiskSignals(exclamations, capitals, length, repeated)
  \/ RiskClamp

SpecRisk == Init /\ [][NextRisk]_vars

\* NCallers simultaneous callers of add_memory, each with its own session;
\* their commits and queries interleave.
NextConc ==
  \E c \in Callers :
    \/ nextId <= MaxConcAdds /\ AddMemory(c, {"u1"}, {"user"}, {None})
    \/ EnforceCount(c)
    \/ EnforceSelect(c)
    \/ EnforceCommit(c)

SpecConc == Init /\ [][NextConc]_vars

\* two simultaneous callers of add_memory, each adding for a user of its
\* own.
UserOf(c) == IF c = 1 THEN "u1" ELSE "u2"
NextPar ==
  \E c \in {1, 2} :
    \/ nextId <= MaxConcAdds /\ AddMemory(c, {UserOf(c)}, {"user"}, {None})
    \/ EnforceCount(c)
    \/ EnforceSelect(c)
    \/ EnforceCommit(c)

SpecPar == Init /\ [][NextPar]_vars

\* JournieAgent(): the store of create_prod_memory_store, without taggers.
InitChat ==
  /\ max_active_per_user \in 1..MaxCap
  /\ archive_batch_size \in 1..MaxBatch
  /\ taggers = <<>>
  /\ backend \in Backends
  /\ active = {}
  /\ archive = {}
  /\ clock = 1
  /\ nextId = 1
  /\ pc = [c \in Callers |-> "idle"]
  /\ a_user = [c \in Callers |-> ""]
  /\ a_entry = [c \in Callers |-> 0]
  /\ detached = [c \in Callers |-> FALSE]
  /\ n_to_move = [c \in Callers |-> 0]
  /\ oldest = [c \in Callers |-> {}]
  /\ result = [c \in Callers |-> "none"]
  /\ nImports = 0
  /\ r_pc = "start"
  /\ r_risk = 0
  /\ t_pc = "idle"
  /\ t_user = ""
  /\ t_ctx = <<>>
  /\ t_msg = 0

\* chat turns of one agent for either user, nothing else writing the store.
NextChat ==
  \/ \E user_id \in Users : ChatContext(1, user_id)
  \/ ChatRiskFail
  \/ ChatStoreUser(1)
  \/ EnforceCount(1)
  \/ EnforceSelect(1)
  \/ EnforceCommit(1)
  \/ ChatModel(1)
  \/ ChatStoreReply(1)
  \/ ChatReturn(1)

SpecChat == InitChat /\ [][NextChat]_vars

(* ---------------------------- claims ----------------------------------- *)
UserRows(u) == OfUser(active, u) \cup OfUser(archive, u)
\* the user's records have pairwise distinct timestamps
DistinctTs(u) ==
  \A r, s \in UserRows(u) : r.id # s.id => r.timestamp # s.timestamp

\* C1: whenever an add has returned (the caller is idle again), every user
\* has at most max_active_per_user rows in memory_active.
C1_ActiveBounded ==
  pc[1] = "idle" => \A u \in Users : ActiveCount(u) <= max_active_per_user

\* an add has returned with the user at the bound and records archived
C1_Witness ==
  /\ pc[1] = "idle" /\ result[1] = "ok"
  /\ \E u \in Users : /\ ActiveCount(u) = max_active_per_user
                       /\ OfUser(archive, u) # {}

C2_Step ==
  \A u \in Users : DistinctTs(u)' =>
    LET entering == OfUser(archive', u) \ OfUser(archive, u)
    IN /\ \A r \in entering :
            /\ \A s \in OfUser(active', u) : r.timestamp < s.timestamp
            /\ \A q \in OfUser(archive, u) : q.timestamp < r.timestamp
       /\ pc'[1] = "idle" =>
            /\ Cardinality(OfUser(active', u)) =
                 Min(max_active_per_user, Cardinality(UserRows(u)'))
            /\ \A r \in OfUser(archive', u) :
                 \A s \in OfUser(active', u) : r.timestamp < s.timestamp

\* C2: eviction is FIFO by timestamp.  For a user whose records have
\* strictly increasing timestamps, every record entering the archive is
\* older than every record left active and newer than every record archived
\* before it, and when the add has returned the active tier holds exactly
\* the max_active_per_user most recent records, the archive all older ones.
C2_FifoEviction == [][C2_Step]_vars

\* the spec's example: max 2, batch 1, four adds for one user, A and B
\* archived, C and D active
C2_Witness ==
  /\ pc[1] = "idle" /\ max_active_per_user = 2 /\ archive_batch_size = 1
  /\ \E u \in Users :
       /\ DistinctTs(u)
       /\ Ids(OfUser(archive, u)) = {1, 2}
       /\ Ids(OfUser(active, u)) = {3, 4}

C4_Step ==
  LET before == Ids(active) \cup Ids(archive)
      after == Ids(active') \cup Ids(archive')
      n == Cardinality(active) + Cardinality(archive)
      n2 == Cardinality(active') + Cardinality(archive')
  IN IF nextId' # nextId
     THEN /\ nextId \notin before
          /\ after = before \cup {nextId}
          /\ n2 = n + 1
     ELSE /\ after = before
          /\ n2 = n
          /\ active' \subseteq active
          /\ archive \subseteq archive'

\* C4: the ids present in active and archive together only grow: an add
\* introduces exactly one new id, and a migration step leaves the ids (and
\* their number of occurrences) as they are, moving rows from active to
\* archive only.
C4_AppendOnly == [][C4_Step]_vars

\* all adds of the behaviour are done and some record has been migrated
C4_Witness ==
  /\ nextId > MaxAdds /\ pc[1] = "idle"
  /\ archive # {} /\ active # {}

\* C5: every row that enters memory_archive was, with the same id, user_id,
\* timestamp, role, content and tags, a row of memory_active just before,
\* and is no longer one after.
C5_MigrationPreservesRecord ==
  [][\A r \in archive' \ archive : r \in active /\ r \notin active']_vars

\* a record carrying tags has been migrated
C5_Witness == \E r \in archive : r.tags # None

C7_Step ==
  /\ \A i \in 1..(nextId' - 1) : (i \in Ids(active')) # (i \in Ids(archive'))
  /\ Cardinality(active') + Cardinality(archive') = nextId' - 1
  /\ pc[1] = "commit" =>
       \/ UNCHANGED tables
       \/ /\ archive' = archive \cup oldest[1]
          /\ active' = active \ oldest[1]

\* C7: with storage failures at any step of add_memory or of a batch, every
\* record stored so far is in exactly one tier in every state (never in
\* neither, never in both), and a step taken from the commit of a batch
\* either leaves both tables as they were or moves the whole batch.
C7_NoLossNoSplit == [][C7_Step]_vars

\* a failure has interrupted a backlog: one batch is archived, the add has
\* raised and the user is still over the bound
C7_Witness ==
  /\ pc[1] = "idle" /\ result[1] = "error"
  /\ \E u \in Users : /\ ActiveCount(u) > max_active_per_user
                       /\ OfUser(archive, u) # {}

\* C6: a record id occurs at most once across memory_active and
\* memory_archive together, in every state reached by add_memory and
\* import_memory calls with either merge value.
C6_IdUniqueAcrossTiers ==
  /\ Ids(active) \cap Ids(archive) = {}
  /\ Cardinality(Ids(active)) = Cardinality(active)
  /\ Cardinality(Ids(archive)) = Cardinality(archive)

\* C8: when the enforcer has found the user over the bound (after a normal
\* add or over a backlog left by an import into memory_active) and
\* add_memory then returns, the user has exactly max_active_per_user active
\* rows.
C8_ExactlyMaxAfterEnforce ==
  [][(pc[1] \in {"select", "commit"} /\ pc'[1] = "idle" /\ result'[1] = "ok")
       => Cardinality(OfUser(active', a_user[1])) = max_active_per_user]_vars

\* an add has returned after migrating a backlog of at least two records
\* that an import had put into memory_active
C8_Witness ==
  /\ pc[1] = "idle" /\ result[1] = "ok" /\ a_entry[1] # 0
  /\ ActiveCount(a_user[1]) = max_active_per_user
  /\ {101, 102} \subseteq Ids(OfUser(archive, a_user[1]))

\* C9: export, import of that export with merge=False, export again: the
\* second export is the first one (same records, fields, tiers, order).
C9_RoundTrip ==
  [][\A p \in ExportResults(active, archive, NoUser) :
       ImportMemory(1, p, FALSE)
         => ExportResults(active', archive', NoUser) = {p}]_vars

\* the records of a table as export_memory shows them
View(table) == {ToDict(r) : r \in table}

\* C10: import with merge=True is an idempotent upsert by id: importing the
\* export of the current store leaves the records of each tier as they
\* were, and importing the same payload once more changes nothing further.
C10_MergeIdempotent ==
  [][\A p \in ExportResults(active, archive, NoUser) :
       ImportMemory(1, p, TRUE) =>
         /\ View(active') = View(active)
         /\ View(archive') = View(archive)
         /\ LET again == ImportOutcome(active', archive', p, TRUE, clock',
                                       nextId')
            IN /\ View(again.active) = View(active')
               /\ View(again.archive) = View(archive')]_vars

\* C3: when simultaneous add_memory calls have all finished, every user is
\* within max_active_per_user, every added record is in exactly one tier
\* and occurs once, and no call has raised.
C3_ConcurrentAdds ==
  (\A c \in Callers : pc[c] = "idle") =>
    /\ \A u \in Users : ActiveCount(u) <= max_active_per_user
    /\ \A i \in 1..(nextId - 1) : (i \in Ids(active)) # (i \in Ids(archive))
    /\ Cardinality(active) + Cardinality(archive) = nextId - 1
    /\ \A c \in Callers : result[c] # "error"

(* C11: get_relevant(user_id, k) with k >= 1 returns at most k records, each
   an Active record of user_id, no record twice; they are the k most recent
   Active records of the user (all of them when there are fewer than k), in
   timestamp-descending order; Archive records are never used to fill up. *)
MaxK == 2
Ts(dict) == dict.timestamp[1].t
C11_RelevantIsRecentActive ==
  \A u \in Users, k \in 1..MaxK : \A res \in GetRelevantMemory(u, k) :
    LET mine == OfUser(active, u)
        got == {res.rows[i] : i \in 1..Len(res.rows)}
    IN /\ res.ok
       /\ Len(res.rows) = Min(k, Cardinality(mine))
       /\ \A i \in 1..Len(res.rows) : \E r \in mine : ToDict(r) = res.rows[i]
       /\ \A i, j \in 1..Len(res.rows) : i < j =>
            /\ res.rows[i] # res.rows[j]
            /\ Ts(res.rows[i]) >= Ts(res.rows[j])
       /\ \A r \in mine : ToDict(r) \notin got =>
            \A d \in got : r.timestamp <= Ts(d)

\* the user has fewer than k Active records and some Archive records.
C11_Witness ==
  \E u \in Users :
    /\ Cardinality(OfUser(active, u)) = 1
    /\ OfUser(archive, u) # {}
    /\ \A res \in GetRelevantMemory(u, MaxK) : Len(res.rows) = 1


\* the tags of a stored row as a list (a tags column of None is no tag).
StoredTags(row) == IF row.tags = None THEN <<>> ELSE row.tags[1]
Range(s) == {s[i] : i \in 1..Len(s)}
Pos(x, s) == CHOOSE i \in 1..Len(s) : s[i] = x /\ \A j \in 1..(i - 1) : s[j] # x
GivenTags(callerTags) == IF callerTags = None THEN <<>> ELSE callerTags[1]
\* the first contributor of a tag: 0 for the caller, else the position of
\* the first tagger that returned it.
FirstSource(x, callerTags, outs) ==
  IF x \in Range(GivenTags(callerTags)) THEN 0
  ELSE CHOOSE i \in 1..Len(outs) :
         /\ outs[i] # "raise" /\ x \in Range(outs[i])
         /\ \A j \in 1..(i - 1) : outs[j] = "raise" \/ x \notin Range(outs[j])

(* C12: a tagger that raises does not make add fail: the record is stored
   and the add returns; the stored tags are exactly the caller's tags and
   the tags returned by the taggers that did not raise (a raising tagger
   contributes none), every tagger after a raising one still contributing,
   the caller's tags before the taggers' and the taggers' in configured
   order. *)
C12_Step ==
  /\ result'[1] # "error"
  /\ \A callerTags \in WideCallerTags :
       AddInsert(1, "u1", "user", "sad", callerTags, taggers) =>
         \E row \in active' :
           /\ row.id = nextId
           /\ Range(StoredTags(row)) =
                Range(GivenTags(callerTags)) \cup
                UNION {Range(taggers[i]) :
                         i \in {j \in 1..Len(taggers) : taggers[j] # "raise"}}
           /\ \A x, y \in Range(StoredTags(row)) :
                FirstSource(x, callerTags, taggers)
                  < FirstSource(y, callerTags, taggers)
                => Pos(x, StoredTags(row)) < Pos(y, StoredTags(row))
C12_TaggerFailureIsolated == [][C12_Step]_vars

\* the first tagger raised, the second returned ["c"]; the add returned and
\* its record carries the tag c.
C12_Witness ==
  /\ Len(taggers) = 2 /\ taggers[1] = "raise"
  /\ taggers[2] # "raise" /\ taggers[2] = <<"c">>
  /\ pc[1] = "idle" /\ result[1] = "ok"
  /\ \E row \in active \cup archive : StoredTags(row) = <<"a", "c">>


RECURSIVE Outputs(_, _)
\* the caller's tags followed by what the taggers up to the i-th returned.
Outputs(callerTags, i) ==
  IF i = 0 THEN GivenTags(callerTags)
  ELSE Outputs(callerTags, i - 1) \o
       (IF taggers[i] = "raise" THEN <<>> ELSE taggers[i])

(* C19: the tags stored with a record contain no tag twice; they are the
   caller's tags followed by the taggers' outputs with every repeat
   dropped, each tag standing where it occurred first. *)
C19_Step ==
  \A callerTags \in WideCallerTags :
    AddInsert(1, "u1", "user", "sad", callerTags, taggers) =>
      \E row \in active' :
        LET stored == StoredTags(row)
            given == Outputs(callerTags, Len(taggers))
        IN /\ row.id = nextId
           /\ \A i, j \in 1..Len(stored) : i # j => stored[i] # stored[j]
           /\ Range(stored) = Range(given)
           /\ \A i, j \in 1..Len(stored) :
                i < j => Pos(stored[i], given) < Pos(stored[j], given)
C19_TagsDeduplicated == [][C19_Step]_vars

\* the caller gave c and b, the only tagger returned b and a: b is stored
\* once, at the caller's position.
C19_Witness ==
  /\ Len(taggers) = 1 /\ taggers[1] # "raise" /\ taggers[1] = <<"b", "a">>
  /\ \E row \in active \cup archive : StoredTags(row) = <<"c", "b", "a">>


(* C13: add called with an empty user_id or an empty role fails and stores
   nothing: both tiers are unchanged after the call. *)
C13_Step ==
  \A user_id \in Users, role \in Roles,
     outcomes \in [1..Len(taggers) -> TaggerOutcomes] :
    (user_id = "" \/ role = "") /\ AddInsert(1, user_id, role, "sad", None, outcomes)
    => /\ active' = active
       /\ archive' = archive
       /\ result'[1] = "error"
C13_EmptyRejected == [][C13_Step]_vars

(* C14: get_relevant(user_id, recent_k) with recent_k < 1 fails instead of
   returning records, both as a call of the store and through the HTTP
   route. *)
C14_NonPositiveKRejected ==
  \A u \in Users, k \in (0 - MaxK)..0 :
    \A res \in GetRelevantMemory(u, k) \cup GetRelevantRoute(u, k) : ~res.ok

\* some record of the payload has no user_id
LacksUserId(payload) ==
  \E l \in {payload.active, payload.archive} : \E i \in 1..Len(l) :
    l[i].user_id = None

(* C15: import raises when any record of the payload, in its active or in
   its archive list, has no user_id. *)
C15_Step ==
  \A payload \in HandPayloads, merge \in BOOLEAN :
    LacksUserId(payload) /\ ImportMemory(1, payload, merge)
    => result'[1] = "error"
C15_ImportNeedsUserId == [][C15_Step]_vars

\* on PostgreSQL, where no timestamp makes the flush raise, an import of a
\* merge=True call failed with nothing added so far: a record of its
\* payload had no user_id.
C15_Witness ==
  /\ backend = "postgresql" /\ nextId = 1 /\ nImports = 1
  /\ result[1] = "error"
  /\ active = {} /\ archive = {}


\* limits a caller of get may give: none, or 1..MaxK
Limits == {None} \cup {Some(n) : n \in 1..MaxK}
\* dicts is a list of n distinct records of the table's rows, newest first,
\* and no row of the table left out is newer than a listed one.
NewestFirst(dicts, rows, n) ==
  /\ Len(dicts) = n
  /\ \A i \in 1..n : \E r \in rows : ToDict(r) = dicts[i]
  /\ \A i, j \in 1..n : i < j => dicts[i] # dicts[j] /\ Ts(dicts[i]) >= Ts(dicts[j])
  /\ \A r \in rows : (\A i \in 1..n : dicts[i] # ToDict(r)) =>
       \A i \in 1..n : r.timestamp <= Ts(dicts[i])
Capped(limit, rows) ==
  IF limit = None THEN Cardinality(rows) ELSE Min(limit[1], Cardinality(rows))

(* C16 as stated: get(user_id, limit, include_archive) returns the user's
   Active records newest first, capped at limit, then, when include_archive
   is true, ALL of the user's Archive records newest first; with
   include_archive false no Archive record. *)
C16_ArchiveAllAppended ==
  \A u \in Users, limit \in Limits, inc \in BOOLEAN :
    \A res \in GetMemory(u, limit, inc) :
      LET na == Capped(limit, OfUser(active, u))
          nr == IF inc THEN Cardinality(OfUser(archive, u)) ELSE 0
      IN /\ res.ok
         /\ Len(res.rows) = na + nr
         /\ NewestFirst(SubSeq(res.rows, 1, na), OfUser(active, u), na)
         /\ NewestFirst(SubSeq(res.rows, na + 1, na + nr), OfUser(archive, u), nr)

(* C16 amended: get(user_id, limit, include_archive), with no limit or a
   limit >= 1, returns the user's Active records newest first, capped at
   limit, then, when include_archive is true, the user's Archive records
   newest first, capped at limit as well (so at most 2 * limit records);
   with include_archive false no Archive record. *)
C16_ArchiveCappedToo ==
  \A u \in Users, limit \in Limits, inc \in BOOLEAN :
    \A res \in GetMemory(u, limit, inc) :
      LET na == Capped(limit, OfUser(active, u))
          nr == IF inc THEN Capped(limit, OfUser(archive, u)) ELSE 0
      IN /\ res.ok
         /\ Len(res.rows) = na + nr
         /\ NewestFirst(SubSeq(res.rows, 1, na), OfUser(active, u), na)
         /\ NewestFirst(SubSeq(res.rows, na + 1, na + nr), OfUser(archive, u), nr)

\* a user with one Active and two Archive records: get with limit 1 and
\* include_archive returns two records, one of each tier.
C16_Witness ==
  \E u \in Users :
    /\ Cardinality(OfUser(active, u)) = 1
    /\ Cardinality(OfUser(archive, u)) = 2
    /\ \A res \in GetMemory(u, Some(1), TRUE) : Len(res.rows) = 2


Queries == {"SAD", "a", "x"}
\* the record a dict was made of matches the query in its content or tags
DictMatches(dict, query) ==
  \/ Like(dict.content[1], query)
  \/ \E i \in 1..Len(dict.tags[1]) : Like(dict.tags[1][i], query)

(* C17: search(user_id, query, include_archive, limit) returns only records
   of user_id that match the query, case-insensitively, in content or tags;
   at most limit records; Active matches newest first before any Archive
   match; and every Active record whose content contains the query is
   returned when the Active matches are no more than limit. *)
C17_SearchSemantics ==
  \A u \in Users, query \in Queries, inc \in BOOLEAN, n \in 1..MaxK :
    \A res \in SearchMemory(u, query, inc, Some(n)) :
      LET hits == {r \in OfUser(active, u) : Like(r.content, query)}
          isActive(d) == \E r \in OfUser(active, u) : ToDict(r) = d
      IN /\ Len(res.rows) <= n
         /\ \A i \in 1..Len(res.rows) :
              /\ res.rows[i].user_id = Some(u)
              /\ DictMatches(res.rows[i], query)
         /\ \A i, j \in 1..Len(res.rows) :
              i < j /\ isActive(res.rows[j]) =>
                isActive(res.rows[i]) /\ Ts(res.rows[i]) >= Ts(res.rows[j])
         /\ Cardinality(Matching(active, u, query)) <= n =>
              \A r \in hits :
                res.ok /\ \E i \in 1..Len(res.rows) : res.rows[i] = ToDict(r)


StoredIds == Ids(active) \cup Ids(archive)
(* C18: a record in the Archive tier stays there: no step of an add (the
   insert or a migration batch) removes an Archive record, changes one of
   its fields or puts its id into the Active tier; and every step after
   which some stored id is in neither tier any more is an import with
   merge=false. *)
C18_Step ==
  /\ nImports' = nImports =>
       /\ archive \subseteq archive'
       /\ Ids(archive) \cap Ids(active') \subseteq Ids(active)
  /\ StoredIds \ (Ids(active') \cup Ids(archive')) # {} =>
       \E payload \in HandPayloads \cup ExportResults(active, archive, NoUser)
                        \cup UNION {ExportResults(active, archive, u) : u \in Users} :
         ImportMemory(1, payload, FALSE)
C18_ArchiveTerminal == [][C18_Step]_vars

\* an imported Archive record (id 103) is still in the Archive, unchanged,
\* after an add whose enforcement pass archived another record.
C18_Witness ==
  /\ pc[1] = "idle" /\ result[1] = "ok"
  /\ Row(103, "u1", 2, "user", "sad", Some(<<"a">>)) \in archive
  /\ \E r \in archive : r.id # 103
  /\ 1 \in StoredIds


(* C20: calculate_risk_score returns an integer in 0..10 for every message,
   every sentiment label in {POSITIVE, NEGATIVE, NEUTRAL} with any score and
   every context, however many signals fire: it never raises and what it
   returns lies in 0..10. *)
C20_RiskInRange ==
  /\ r_pc # "raised"
  /\ r_pc = "done" => r_risk \in 0..10


(* C21: when the enforcement of a user's bound aborts on a storage failure
   (or the process stops between two committed batches) the tables stay as
   the last commit left them, every id issued so far in exactly one tier;
   the next add of the user that runs without failure counts afresh
   (n_to_move = count - max_active_per_user, whatever was left over) and
   returns with the user's Active count at most max_active_per_user, the
   archived records of a user with distinct timestamps being older than the
   active ones. *)
C21_Step ==
  /\ pc[1] # "idle" /\ pc'[1] = "idle" /\ result'[1] = "error" =>
       /\ active' = active /\ archive' = archive
       /\ Ids(active) \cap Ids(archive) = {}
       /\ Ids(active) \cup Ids(archive) = 1..(nextId - 1)
  /\ pc[1] = "count" /\ pc'[1] = "select" =>
       n_to_move'[1] = ActiveCount(a_user[1]) - max_active_per_user
  /\ pc'[1] = "idle" /\ result'[1] = "ok" =>
       /\ ActiveCount(a_user[1])' <= max_active_per_user
       /\ DistinctTs(a_user[1])' =>
            \A r \in OfUser(archive', a_user[1]), s \in OfUser(active', a_user[1]) :
              r.timestamp < s.timestamp
C21_SelfHealing == [][C21_Step]_vars

\* after an aborted enforcement the next add of the user has counted
\* afresh and found two records to move (an add that follows a completed
\* enforcement never finds more than one).
C21_Witness ==
  /\ pc[1] = "select" /\ n_to_move[1] = 2
  /\ ActiveCount(a_user[1]) = max_active_per_user + 2

(* C22: among Active records of one user with the same timestamp the ones
   inserted earlier are evicted first: no record enters the Archive while
   a record of the same user and timestamp that was inserted before it
   (ids are issued in insertion order) stays Active. *)
C22_Step ==
  \A r \in archive' \ archive : \A s \in active' :
    s.user_id = r.user_id /\ s.timestamp = r.timestamp => r.id < s.id
C22_TiesByInsertionOrder == [][C22_Step]_vars


(* C23: archive_batch_size has no effect on the outcome: when an add of a
   user with distinct timestamps enters the enforcer, the enforcement run
   with any two batch sizes leaves the same Active and the same Archive
   records (and so the same query results). *)
C23_BatchSizeIrrelevant ==
  pc[1] = "count" /\ DistinctTs(a_user[1]) =>
    \A b1, b2 \in 1..MaxBatch :
      Enforce(active, archive, a_user[1], b1) = Enforce(active, archive, a_user[1], b2)


(* C24: a step of an add for user u (the insert or any step of the
   enforcement it triggers) leaves the Active and Archive records of every
   other user as they were; and when adds for different users run in
   parallel, once all have returned none has raised and each user has the
   tiers the same adds give one after the other: every record stored once,
   at most max_active_per_user Active, and, timestamps being distinct, the
   most recent ones Active and all older ones archived. *)
C24_Step ==
  \A c \in Callers : pc'[c] # pc[c] =>
    \A v \in Users \ {a_user'[c]} :
      /\ OfUser(active', v) = OfUser(active, v)
      /\ OfUser(archive', v) = OfUser(archive, v)
C24_Quiescent ==
  (\A c \in Callers : pc[c] = "idle") =>
    /\ \A c \in Callers : result[c] # "error"
    /\ Ids(active) \cap Ids(archive) = {}
    /\ Ids(active) \cup Ids(archive) = 1..(nextId - 1)
    /\ \A u \in Users :
         /\ ActiveCount(u) = Min(max_active_per_user, Cardinality(UserRows(u)))
         /\ DistinctTs(u) =>
              \A r \in OfUser(archive, u), s \in OfUser(active, u) :
                r.timestamp < s.timestamp
C24_UsersIndependent == [][C24_Step /\ C24_Quiescent']_vars

\* both callers are inside add_memory at once: caller 1 is about to commit
\* a migration batch of u1 while caller 2 has inserted for u2 and is about
\* to count
C24_Witness ==
  /\ pc[1] = "commit" /\ pc[2] = "count"
  /\ a_user[1] = "u1" /\ a_user[2] = "u2"
  /\ Ids(oldest[1]) \subseteq Ids(OfUser(active, "u1"))
  /\ OfUser(active, "u2") # {}


\* the callers that are inside the migration loop for user u
Migrating(u) == {c \in Callers : pc[c] \in {"select", "commit"} /\ a_user[c] = u}
C25_CountBounded ==
  \A u \in Users : ActiveCount(u) <= max_active_per_user + NCallers
C25_NoStaleCount ==
  \A u \in Users : \A c1, c2 \in Migrating(u) :
    c1 # c2 => n_to_move[c1] + n_to_move[c2] <= ActiveCount(u) - max_active_per_user
(* C25: with NCallers concurrent adds in flight for one user, who starts
   within the bound, the user's Active count never exceeds
   max_active_per_user + NCallers, and two writers never both migrate on
   the basis of the same stale count: what two callers inside the migration
   loop still intend to move is never more than the user's excess. *)
C25_ConcurrentWriters == C25_CountBounded /\ C25_NoStaleCount


(* C26: import is all-or-nothing: when import_memory raises, with merge
   true or false, both tiers hold exactly the records they held before the
   call. *)
C26_Step ==
  \A payload \in HandPayloads \cup ExportResults(active, archive, NoUser),
     merge \in BOOLEAN :
    ImportMemory(1, payload, merge) /\ result'[1] = "error"
    => active' = active /\ archive' = archive
C26_ImportAllOrNothing == [][C26_Step]_vars


C27_Step ==
  /\ pc[1] = "select" =>
       \/ pc'[1] = "commit" /\ oldest'[1] # {}
       \/ pc'[1] = "idle"
  /\ pc[1] = "commit" =>
       \/ pc'[1] = "idle"
       \/ /\ Cardinality(active') < Cardinality(active)
          /\ n_to_move'[1] < n_to_move[1]
          /\ n_to_move'[1] > 0
(* C27: the enforcement loop terminates: an iteration that goes on has
   selected at least one record, has moved it and has strictly decreased
   the number left to move, which stays positive; otherwise the loop is
   left; and an add that has entered the enforcer always returns. *)
C27_EnforcementTerminates ==
  [][C27_Step]_vars /\ ((pc[1] # "idle") ~> (pc[1] = "idle"))

\* a backlog of three records is being moved one record per batch
C27_Witness ==
  /\ pc[1] = "commit" /\ n_to_move[1] = 3 /\ archive_batch_size = 1


(* C28: in get and search a limit of 0 is no limit: get(user_id, limit=0)
   returns all of the user's Active records, search(user_id, q, limit=0)
   all matches, each the same results as with limit=None. *)
C28_ZeroLimitIsNoLimit ==
  \A u \in Users, inc \in BOOLEAN :
    /\ GetMemory(u, Some(0), inc) = GetMemory(u, None, inc)
    /\ \A res \in GetMemory(u, Some(0), FALSE) :
         /\ res.ok
         /\ {res.rows[i] : i \in 1..Len(res.rows)} = {ToDict(r) : r \in OfUser(active, u)}
    /\ \A query \in Queries :
         /\ SearchMemory(u, query, inc, Some(0)) = SearchMemory(u, query, inc, None)
         /\ \A res \in SearchMemory(u, query, inc, Some(0)) :
              \A r \in Matching(active, u, query) :
                res.ok /\ \E i \in 1..Len(res.rows) : res.rows[i] = ToDict(r)



\* the stored record of the given id (of either tier), as a set
Stored(id) == {r \in active \cup archive : r.id = id}

\* what a turn has stored, by its position
C29_Turn ==
  /\ t_pc \in {"user", "model", "model_failed", "reply", "done"} =>
       /\ \A i \in ContextIds(t_ctx) : i < t_msg
       /\ \E r \in Stored(t_msg) : r.user_id = t_user /\ r.role = "user"
  /\ t_pc \in {"user", "model", "model_failed"} => nextId = t_msg + 1
  /\ t_pc \in {"reply", "done"} =>
       /\ nextId = t_msg + 2
       /\ \E r \in Stored(t_msg), a \in Stored(t_msg + 1) :
            /\ a.user_id = t_user
            /\ a.role = "assistant"
            /\ r.timestamp <= a.timestamp
  /\ Cardinality(active \cup archive) = nextId - 1

\* what each step of a turn does to the store
C29_Step ==
  /\ t_pc' # t_pc /\ t_pc' \in {"context", "risk_failed", "model", "model_failed", "done"} =>
       Ids(active \cup archive)' = Ids(active \cup archive)
  /\ t_pc' # t_pc /\ t_pc' = "context" =>
       ContextIds(t_ctx') \subseteq Ids(OfUser(active, t_user'))
  /\ t_pc' # t_pc /\ t_pc' \in {"user", "reply"} =>
       Ids(active \cup archive)' = Ids(active \cup archive) \cup {nextId}
  /\ t_pc' = t_pc => Ids(active \cup archive)' = Ids(active \cup archive)
  /\ t_pc' # t_pc =>
       <<t_pc, t_pc'>> \in
         {<<"idle", "context">>, <<"done", "context">>,
          <<"model_failed", "context">>, <<"risk_failed", "context">>,
          <<"context", "risk_failed">>, <<"context", "user">>,
          <<"user", "model">>, <<"user", "model_failed">>,
          <<"model", "reply">>, <<"reply", "done">>}

\* C29: a chat turn reads its context before it stores anything, then stores
\* the user message, then calls the model, then stores the assistant reply.
\* A turn that returns has added exactly two records for the user, the user
\* message first; the context never holds the record of the current message;
\* and a turn whose model call raised keeps the user message and has no
\* assistant record.
C29_ChatTurnOrder == [][C29_Step /\ C29_Turn']_vars
\* a second turn whose model call raised, its context holding records of
\* the first turn
C29_Witness ==
  /\ t_pc = "model_failed"
  /\ t_msg = 3
  /\ ContextIds(t_ctx) # {}
  /\ Stored(t_msg) # {}
\* a turn that returned with both of its records stored
C29_WitnessDone ==
  /\ t_pc = "done"
  /\ Stored(t_msg) # {}
  /\ Stored(t_msg + 1) # {}
====
